---- MODULE Spec2Model ----
(***************************************************************************)
(* Model of sumo_gym: the Gymnasium environment BaseSumoGymEnv /           *)
(* RoundaboutEnv (src/sumo_gym/envs/base.py, roundabout.py) driving a SUMO *)
(* simulation through the traci client, and the legacy SumoEnv             *)
(* (src/sumo_gym/envs/sumo_env.py).                                        *)
(*                                                                         *)
(* Numbers: positions are integers (metres), speeds are integers in mm/s,  *)
(* rewards -1.0/0.0/1.0 are the integers -1/0/1.                           *)
(***************************************************************************)
EXTENDS Integers, Sequences, FiniteSets, TLC

VARIABLES
    sim,                      \* the traci client / SUMO process (module-global in traci)
    reset_counter,            \* self._reset_counter
    step_count,               \* self._step_count       (Unset before the first reset)
    state_dict,               \* self.state_dict         (Unset before the first reset)
    self_vars,                \* self.vars               (Unset before the first reset)
    observation,              \* self.observation        (Unset before the first reset)
    ego_collided,             \* self._ego_collided      (Unset before the first reset)
    ego_arrived_destination,  \* self._ego_arrived_destination
    lastOp,                   \* the public operation called last, with its arguments
    ret,                      \* how that call ended: a returned value or a raised exception
    episode,                  \* the caller's episode loop since the last reset
    last_info,                \* the local info of reset and step: what _get_info built last
    legacy                    \* the legacy SumoEnv object (sumo_env.py)

vars == <<sim, reset_counter, step_count, state_dict, self_vars, observation,
          ego_collided, ego_arrived_destination, lastOp, ret, episode, last_info,
          legacy>>

envVars == <<sim, reset_counter, step_count, state_dict, self_vars, observation,
             ego_collided, ego_arrived_destination, lastOp, ret, episode, last_info>>

-----------------------------------------------------------------------------
(* Bounds of the model *)

\* constructor argument max_steps (main.py passes 300)
max_steps == 2

\* step calls explored after one reset: max_steps + ExtraSteps
ExtraSteps == 1

\* reset calls explored on one environment
MaxResets == 2

\* constructor argument num_actions (main.py passes 20)
num_actions == 2

\* legacy SumoEnv: constructor argument n_veh (main_sumo.py passes 5)
n_veh == 2

-----------------------------------------------------------------------------
(* Program constants *)

VAR_SPEED == 64

VAR_POSITION == 66

VAR_ANGLE == 67

max_ego_speed == 10000

destination_x == 0 - 52

Unset == "<unset>"

\* vehicle_var_ids passed by RoundaboutEnv.__init__
vehicle_var_ids == <<VAR_SPEED, VAR_POSITION>>

\* keys declared by RoundaboutEnv._create_observation_space, with their shapes
observation_space ==
    [k \in {"ego_speed", "ego_pos", "t_0_speed", "t_0_pos", "t_1_speed", "t_1_pos"} |->
        IF k \in {"ego_pos", "t_0_pos", "t_1_pos"} THEN <<2>> ELSE <<1>>]

-----------------------------------------------------------------------------
(* Values exchanged with traci and numpy *)

\* a double returned by traci (a Python float)
Float(x) == [tag |-> "float", val |-> <<x>>]

\* a 2D position returned by traci (a Python tuple (x, y))
Tuple2(x, y) == [tag |-> "tuple", val |-> <<x, y>>]

\* np.array(v): a float becomes a 0-d array, a tuple a 1-d array
NpArray(v) == [shape |-> IF v.tag = "float" THEN <<>> ELSE <<Len(v.val)>>, data |-> v.val]

\* a Python dict with insertion order: a sequence of <<key, value>> pairs
Keys(d) == [i \in 1..Len(d) |-> d[i][1]]

KeySet(d) == {d[i][1] : i \in 1..Len(d)}

Get(d, k) == d[CHOOSE i \in 1..Len(d) : d[i][1] = k][2]

Abs(x) == IF x < 0 THEN 0 - x ELSE x

-----------------------------------------------------------------------------
(* The simulator behind traci.  One record holds what the traci module keeps  *)
(* for the process: open simulations, the subscription, the speed command of  *)
(* ego, the results cached by the last simulationStep, and the calls the      *)
(* current operation has issued so far (log) with the error one raised (err). *)

NoCmd == 0 - 1

NotSaved == 0 - 1

Traffic == {"t_0", "t_1", "t_2"}

VehOrder == <<"ego", "t_0", "t_1", "t_2">>

\* what the simulation may produce in one simulationStep: the traffic vehicles
\* within ego's context range, ego's x position, whether ego is colliding
EgoXs == {0 - 60, destination_x, 0}

PresentSets == {{}, {"t_0"}, {"t_0", "t_1"}, {"t_0", "t_1", "t_2"}}

Worlds == [present : PresentSets, x : EgoXs, coll : BOOLEAN]

TrafficSpeed(v) == CASE v = "t_0" -> 3000 [] v = "t_1" -> 7000 [] OTHER -> 9000

TrafficPos(v) == CASE v = "t_0" -> <<10, 5>> [] v = "t_1" -> <<0 - 20, 8>> [] OTHER -> <<30, 0 - 4>>

SimInit ==
    [conns |-> 0, log |-> <<>>, err |-> "None", subVars |-> <<>>, speedMode |-> NoCmd,
     cmdSpeed |-> NoCmd, nsteps |-> 0, saved |-> NotSaved, subs |-> <<>>, colliding |-> FALSE]

\* a public operation starts: nothing issued yet, no exception pending
BeginOp(s) == [s EXCEPT !.log = <<>>, !.err = "None"]

\* a call on the connection: not made once an exception propagates, and
\* raising FatalTraCIError("Not connected.") when no simulation is open
Issue(s, name) ==
    IF s.err # "None" THEN s
    ELSE IF s.conns = 0 THEN [s EXCEPT !.log = Append(@, name), !.err = "FatalTraCIError"]
    ELSE [s EXCEPT !.log = Append(@, name)]

Ok(s, t) == s.err = "None" /\ t.err = "None"

TraciStart(s) ==
    IF s.err # "None" THEN s
    ELSE [s EXCEPT !.log = Append(@, "start"), !.conns = @ + 1, !.subVars = <<>>,
                   !.speedMode = NoCmd, !.cmdSpeed = NoCmd, !.nsteps = 0,
                   !.saved = NotSaved, !.subs = <<>>, !.colliding = FALSE]

TraciClose(s) ==
    LET t == Issue(s, "close")
    IN IF Ok(s, t) THEN [t EXCEPT !.conns = @ - 1, !.subs = <<>>, !.subVars = <<>>] ELSE t

TraciSubscribeContext(s, varIDs) ==
    LET t == Issue(s, "subscribeContext")
    IN IF Ok(s, t) THEN [t EXCEPT !.subVars = varIDs] ELSE t

TraciSetSpeedMode(s, mode) ==
    LET t == Issue(s, "setSpeedMode")
    IN IF Ok(s, t) THEN [t EXCEPT !.speedMode = mode] ELSE t

TraciSetSpeed(s, speed) ==
    LET t == Issue(s, "setSpeed")
    IN IF Ok(s, t) THEN [t EXCEPT !.cmdSpeed = speed] ELSE t

TraciSaveState(s) ==
    LET t == Issue(s, "saveState")
    IN IF Ok(s, t) THEN [t EXCEPT !.saved = s.nsteps] ELSE t

\* the speed ego drives in a simulation step: the one commanded before the step
SpeedApplied(cmd) == IF cmd = NoCmd THEN 0 ELSE cmd

VarValue(v, var, w, egoSpeed) ==
    CASE var = VAR_SPEED -> Float(IF v = "ego" THEN egoSpeed ELSE TrafficSpeed(v))
      [] var = VAR_POSITION -> (IF v = "ego" THEN Tuple2(w.x, 0)
                                ELSE Tuple2(TrafficPos(v)[1], TrafficPos(v)[2]))
      [] OTHER -> Float(0)

\* the context subscription result of "ego": ego and the traffic in range, each
\* with the subscribed variables in the order they were requested
ContextResults(varIDs, w, egoSpeed) ==
    LET vehs == SelectSeq(VehOrder, LAMBDA v : v = "ego" \/ v \in w.present)
    IN [i \in 1..Len(vehs) |->
          <<vehs[i], [j \in 1..Len(varIDs) |->
                         <<varIDs[j], VarValue(vehs[i], varIDs[j], w, egoSpeed)>>]>>]

TraciSimulationStep(s, w) ==
    LET t == Issue(s, "simulationStep")
    IN IF Ok(s, t)
       THEN [t EXCEPT !.nsteps = @ + 1, !.colliding = w.coll,
                      !.subs = IF s.subVars = <<>> THEN <<>>
                               ELSE ContextResults(s.subVars, w, SpeedApplied(s.cmdSpeed))]
       ELSE t

\* reads issue a call and leave the simulation as it is
TraciGetContextSubscriptionResults(s) == Issue(s, "getContextSubscriptionResults")

TraciGetCollidingVehiclesIDList(s) == Issue(s, "getCollidingVehiclesIDList")

-----------------------------------------------------------------------------
(* RoundaboutEnv helpers (roundabout.py) *)

Return(v) == [kind |-> "return", val |-> v]

Raise(e) == [kind |-> "raise", val |-> e]

\* _get_obs: one "<v>_pos" and one "<v>_speed" entry per vehicle of state_dict
get_obs(sd, vs) ==
    LET vehs == KeySet(sd)
        keys == {v \o "_pos" : v \in vehs} \cup {v \o "_speed" : v \in vehs}
    IN [k \in keys |->
          LET v == CHOOSE u \in vehs : k \in {u \o "_pos", u \o "_speed"}
          IN IF k = v \o "_pos"
             THEN NpArray(Get(Get(sd, v), vs[1]))
             ELSE NpArray(Get(Get(sd, v), vs[2]))]

\* a - b on two traci values, then np.linalg.norm
NormDiff(a, b) ==
    IF a.tag = "tuple" \/ b.tag = "tuple" THEN [exc |-> "TypeError", val |-> 0]
    ELSE [exc |-> "None", val |-> Abs(a.val[1] - b.val[1])]

\* _get_info
get_info(sd, vs, collided) ==
    LET pos_key == vs[1]
        d0 == NormDiff(Get(Get(sd, "ego"), pos_key), Get(Get(sd, "t_0"), pos_key))
        d1 == NormDiff(Get(Get(sd, "ego"), pos_key), Get(Get(sd, "t_1"), pos_key))
        none == [ego_t0_dist |-> 0, ego_t1_dist |-> 0, ego_collided |-> FALSE]
    IN IF "ego" \notin KeySet(sd) \/ "t_0" \notin KeySet(sd) THEN [exc |-> "KeyError", val |-> none]
       ELSE IF d0.exc # "None" THEN [exc |-> d0.exc, val |-> none]
       ELSE IF "t_1" \notin KeySet(sd) THEN [exc |-> "KeyError", val |-> none]
       ELSE IF d1.exc # "None" THEN [exc |-> d1.exc, val |-> none]
       ELSE [exc |-> "None",
             val |-> [ego_t0_dist |-> d0.val, ego_t1_dist |-> d1.val, ego_collided |-> collided]]

\* linspace(0.0, max_ego_speed, num_actions)[action]
Linspace(action) ==
    IF num_actions = 1 THEN 0 ELSE (action * max_ego_speed) \div (num_actions - 1)

\* _reward: the collision flag it stores, whether it sets the arrived flag, the
\* reward, and the exception the lookup observation["ego_pos"][0] raises
reward_(obs, colliding) ==
    LET r0 == IF colliding THEN 0 - 1 ELSE 0
    IN IF "ego_pos" \notin DOMAIN obs
       THEN [exc |-> "KeyError", collided |-> colliding, arrived |-> FALSE, reward |-> r0]
       ELSE IF obs["ego_pos"].shape = <<>>
       THEN [exc |-> "IndexError", collided |-> colliding, arrived |-> FALSE, reward |-> r0]
       ELSE IF obs["ego_pos"].data[1] < destination_x
       THEN [exc |-> "None", collided |-> colliding, arrived |-> TRUE, reward |-> 1]
       ELSE [exc |-> "None", collided |-> colliding, arrived |-> FALSE, reward |-> r0]

\* _terminate
terminate(collided, arrived) == collided \/ arrived

-----------------------------------------------------------------------------
(* BaseSumoGymEnv operations (base.py) *)

ego_speed_mode == 32

None == "None"

Op(name, action) == [op |-> name, action |-> action]

\* variant of NeedsClose: the second reset does not close either
NeedsClose_skipSecond(rc) == rc > 1

\* reset, line 181: the previous simulation is closed on every reset but the first
NeedsClose(rc) == rc > 0

\* variant of reset_calls: the initial state is saved before the first step
reset_calls_saveFirst(s, w) ==
    LET s1 == TraciStart(s)
        s2 == TraciSubscribeContext(s1, vehicle_var_ids)
        s3 == TraciSetSpeedMode(s2, ego_speed_mode)
        s4 == TraciSaveState(s3)
        s5 == TraciSimulationStep(s4, w)
    IN TraciGetContextSubscriptionResults(s5)

\* reset, lines 189-203: the calls made on the new simulation
reset_calls(s, w) ==
    LET s1 == TraciStart(s)
        s2 == TraciSubscribeContext(s1, vehicle_var_ids)
        s3 == TraciSetSpeedMode(s2, ego_speed_mode)
        s4 == TraciSimulationStep(s3, w)
        s5 == TraciSaveState(s4)
    IN TraciGetContextSubscriptionResults(s5)

\* RoundaboutEnv._act
act(s, action) == TraciSetSpeed(s, Linspace(action))

\* variant of step_calls: the action is pushed before the simulation advances
step_calls_actFirst(s, action, w) ==
    LET s1 == act(s, action)
        s2 == TraciSimulationStep(s1, w)
    IN TraciGetContextSubscriptionResults(s2)

\* step, lines 236-238
step_calls(s, action, w) ==
    LET s1 == TraciSimulationStep(s, w)
        s2 == act(s1, action)
    IN TraciGetContextSubscriptionResults(s2)

\* step, lines 242-247
Truncated(count) == count >= max_steps

LegacyInit == [vars |-> <<>>, s |-> <<>>, statedict |-> <<>>, context_len |-> 0]

\* the loop of main.py, lines 11-17: whether a step of this episode has returned
\* terminated or truncated (stopped), and whether a step of this episode has
\* seen ego's x position below the destination (below)
EpisodeStart == [stopped |-> FALSE, below |-> FALSE]

\* no call of _get_info yet
InfoUnset ==
    [exc |-> Unset, val |-> [ego_t0_dist |-> 0, ego_t1_dist |-> 0, ego_collided |-> FALSE]]

EgoX(sd) == Get(Get(sd, "ego"), VAR_POSITION).val[1]

Init ==
    /\ sim = SimInit
    /\ reset_counter = 0
    /\ step_count = Unset
    /\ state_dict = Unset
    /\ self_vars = Unset
    /\ observation = Unset
    /\ ego_collided = Unset
    /\ ego_arrived_destination = Unset
    /\ lastOp = Op("__init__", None)
    /\ ret = Return(None)
    /\ episode = EpisodeStart
    /\ last_info = InfoUnset
    /\ legacy = LegacyInit

\* BaseSumoGymEnv.reset; w is what the simulation produces in its first step
reset(w) ==
    \E s0 \in {IF NeedsClose(reset_counter) THEN TraciClose(BeginOp(sim)) ELSE BeginOp(sim)} :
    \E s1 \in {reset_calls(s0, w)} :
    LET sd == s1.subs
        vs == Keys(Get(sd, "ego"))
        obs == get_obs(sd, vs)
        info == get_info(sd, vs, FALSE)
    IN /\ lastOp' = Op("reset", None)
       /\ legacy' = legacy
       /\ IF s0.err # None
          THEN \* self.close() raised: nothing after line 182 runs
               /\ sim' = s0
               /\ ret' = Raise(s0.err)
               /\ UNCHANGED <<reset_counter, step_count, state_dict, self_vars, observation,
                              ego_collided, ego_arrived_destination, episode, last_info>>
          ELSE /\ sim' = s1
               /\ last_info' = info
               /\ step_count' = 0
               /\ reset_counter' = reset_counter + 1
               /\ state_dict' = sd
               /\ self_vars' = vs
               /\ ego_collided' = FALSE
               /\ ego_arrived_destination' = FALSE
               /\ observation' = obs
               /\ episode' = EpisodeStart
               /\ ret' = IF info.exc # None THEN Raise(info.exc) ELSE Return(<<obs, info.val>>)

\* BaseSumoGymEnv.step
step(action, w) ==
    \E s1 \in {step_calls(BeginOp(sim), action, w)} :
    \E obs \in {IF s1.err # None THEN <<>> ELSE get_obs(s1.subs, self_vars)} :
    LET sd == s1.subs
        count == step_count + 1
        truncated == Truncated(count)
        info == get_info(sd, self_vars, ego_collided)
        s2 == TraciGetCollidingVehiclesIDList(s1)
        rw == reward_(obs, s2.colliding)
        arrived == ego_arrived_destination \/ rw.arrived
        terminated == terminate(rw.collided, arrived)
    IN /\ lastOp' = Op("step", action)
       /\ legacy' = legacy
       /\ UNCHANGED <<reset_counter, self_vars>>
       /\ IF s1.err # None
          THEN \* a call of lines 236-238 raised
               /\ sim' = s1
               /\ ret' = Raise(s1.err)
               /\ UNCHANGED <<step_count, state_dict, observation, ego_collided,
                              ego_arrived_destination, episode, last_info>>
          ELSE /\ state_dict' = sd
               /\ last_info' = info
               /\ step_count' = count
               /\ observation' = obs
               /\ IF info.exc # None
                  THEN \* _get_info raised
                       /\ sim' = s1
                       /\ ret' = Raise(info.exc)
                       /\ UNCHANGED <<ego_collided, ego_arrived_destination>>
                  ELSE /\ sim' = s2
                       /\ ego_collided' = rw.collided
                       /\ IF rw.exc # None
                          THEN \* _reward raised after storing the collision flag
                               /\ ret' = Raise(rw.exc)
                               /\ UNCHANGED ego_arrived_destination
                          ELSE /\ ego_arrived_destination' = arrived
                               /\ ret' = Return(<<obs, rw.reward, terminated, truncated,
                                                  info.val>>)
               /\ episode' = [stopped |-> episode.stopped \/
                                            (ret'.kind = "return" /\ (ret'.val[3] \/ ret'.val[4])),
                              below |-> episode.below \/ EgoX(sd) < destination_x]

\* BaseSumoGymEnv.close
close ==
    LET s1 == TraciClose(BeginOp(sim))
    IN /\ sim' = s1
       /\ lastOp' = Op("close", None)
       /\ ret' = IF s1.err # None THEN Raise(s1.err) ELSE Return(None)
       /\ UNCHANGED <<reset_counter, step_count, state_dict, self_vars, observation,
                      ego_collided, ego_arrived_destination, episode, last_info, legacy>>

\* BaseSumoGymEnv.render
render(filename) ==
    LET s0 == BeginOp(sim)
        s1 == IF filename = None THEN s0 ELSE Issue(s0, "screenshot")
    IN /\ sim' = s1
       /\ lastOp' = Op("render", None)
       /\ ret' = IF s1.err # None THEN Raise(s1.err) ELSE Return(None)
       /\ UNCHANGED <<reset_counter, step_count, state_dict, self_vars, observation,
                      ego_collided, ego_arrived_destination, episode, last_info, legacy>>

-----------------------------------------------------------------------------
(* The environment used as main.py and the tests use it: construction,     *)
(* reset, a loop of step and render, further resets, and a final close.    *)

Closed == lastOp.op = "close"

Reset == \E w \in Worlds : reset_counter < MaxResets /\ ~Closed /\ reset(w)

Step ==
    \E a \in 0..(num_actions - 1), w \in Worlds :
        /\ reset_counter > 0 /\ ~Closed
        /\ step_count < max_steps + ExtraSteps
        /\ step(a, w)

Render == \E f \in {None, "out.png"} : reset_counter > 0 /\ ~Closed /\ lastOp.op # "render" /\ render(f)

Close == reset_counter > 0 /\ ~Closed /\ close

Next == Reset \/ Step \/ Render \/ Close

Spec == Init /\ [][Next]_vars

-----------------------------------------------------------------------------
(* The environment under any sequence of its public operations: nothing in  *)
(* reset, step, render or close looks at what was called before.            *)

ResetAny == \E w \in Worlds : reset_counter < MaxResets /\ reset(w)

StepAny ==
    \E a \in 0..(num_actions - 1), w \in Worlds :
        /\ IF reset_counter = 0 THEN TRUE ELSE step_count < max_steps + ExtraSteps
        /\ step(a, w)

RenderAny == \E f \in {None, "out.png"} : lastOp.op # "render" /\ render(f)

CloseAny == close

NextAny == CloseAny \/ StepAny \/ RenderAny \/ ResetAny

SpecAny == Init /\ [][NextAny]_vars

-----------------------------------------------------------------------------
(* Properties of the environment *)

IsStepCall == lastOp.op = "step"

IsResetCall == lastOp.op = "reset"

Returned == ret.kind = "return"

\* the step's subscription held ego and the two vehicles _get_info looks up
TrafficInRange == reset_counter > 0 /\ {"ego", "t_0", "t_1"} \subseteq KeySet(state_dict)

RawSpeed(sd, v) == Get(Get(sd, v), VAR_SPEED)

RawPosition(sd, v) == Get(Get(sd, v), VAR_POSITION)

\* C1: every observation returned by reset and step has exactly the six keys
\* of the observation space, whatever vehicles the subscription returned.
C1_FixedKeySet ==
    ((IsStepCall \/ IsResetCall) /\ Returned) => DOMAIN ret.val[1] = DOMAIN observation_space

\* C2: at most one simulation is open at any time; every reset after the first
\* closes the previous simulation before it starts the new one; exactly one
\* simulation is open after a reset and none after close.
C2_OneSimulation ==
    /\ sim.conns <= 1
    /\ (IsResetCall /\ reset_counter > 1) =>
           (Len(sim.log) >= 2 /\ sim.log[1] = "close" /\ sim.log[2] = "start")
    /\ (IsResetCall /\ reset_counter = 1) => (Len(sim.log) >= 1 /\ sim.log[1] = "start")
    /\ IsResetCall => sim.conns = 1
    /\ lastOp.op = "close" => sim.conns = 0

\* C2 witness: a second reset has returned with one simulation open
C2_Witness == IsResetCall /\ reset_counter = 2 /\ Returned /\ sim.conns = 1

\* C3: a step returns truncated = TRUE exactly when the number of step calls
\* since the last reset is at least max_steps.
C3_TruncatedIffCount ==
    (IsStepCall /\ TrafficInRange) => (Returned /\ (ret.val[4] <=> step_count >= max_steps))

\* C4: a step returns terminated = TRUE exactly when ego is in the colliding
\* list at this step or ego's x was below the destination at this or an
\* earlier step of the episode.
C4_TerminatedIffCollidedOrArrived ==
    (IsStepCall /\ TrafficInRange) =>
        (Returned /\ (ret.val[3] <=> (sim.colliding \/ episode.below)))

\* C5: the reward of a step is 1 when ego's x is below the destination,
\* otherwise -1 when ego is colliding, otherwise 0.
C5_RewardValue ==
    (IsStepCall /\ TrafficInRange) =>
        (Returned /\ ret.val[2] = (IF EgoX(state_dict) < destination_x THEN 1
                                   ELSE IF sim.colliding THEN 0 - 1 ELSE 0))

\* C6: among the first max_steps steps after a reset, some step returns
\* terminated or truncated.
C6_EpisodeStops == (IsStepCall /\ step_count >= max_steps) => episode.stopped

\* C7: in every observation built by _get_obs, "<v>_pos" holds v's position
\* (shape (2,)) and "<v>_speed" holds v's speed.
C7_PosAndSpeedEntries ==
    reset_counter > 0 =>
        \A v \in KeySet(state_dict) :
            /\ observation[v \o "_pos"].shape = <<2>>
            /\ observation[v \o "_pos"].data = RawPosition(state_dict, v).val
            /\ observation[v \o "_speed"].data = RawSpeed(state_dict, v).val

ResetCallOrder ==
    <<"start", "subscribeContext", "setSpeedMode", "simulationStep", "saveState",
      "getContextSubscriptionResults">>

\* C9: every reset issues close (only when it is not the first reset), start,
\* subscribeContext, setSpeedMode, simulationStep, saveState and
\* getContextSubscriptionResults in this order; the first observation is read
\* after exactly one simulation step, and the state is saved before it is read.
C9_ResetCallSequence ==
    IsResetCall =>
        /\ sim.log = (IF reset_counter > 1 THEN <<"close">> ELSE <<>>) \o ResetCallOrder
        /\ sim.nsteps = 1
        /\ sim.saved = 1
        /\ sim.subVars = vehicle_var_ids
        /\ sim.speedMode = ego_speed_mode
        /\ state_dict = sim.subs

\* C9 witness: a reset after the first has returned its observation
C9_Witness ==
    /\ IsResetCall /\ reset_counter > 1 /\ Returned
    /\ Len(sim.log) = 7 /\ sim.log[1] = "close" /\ sim.log[5] = "simulationStep"

\* C10: a step call advances the simulation by exactly one simulationStep, then
\* pushes the action with setSpeed, then reads the subscription results; the
\* observation it assembles shows ego at the speed commanded before the call,
\* and the action becomes the command the next simulation step applies.
C10_StepThenAct ==
    [][lastOp'.op = "step" =>
          /\ SubSeq(sim'.log, 1, 3) = <<"simulationStep", "setSpeed",
                                        "getContextSubscriptionResults">>
          /\ sim'.nsteps = sim.nsteps + 1
          /\ sim'.cmdSpeed = Linspace(lastOp'.action)
          /\ RawSpeed(state_dict', "ego") = Float(SpeedApplied(sim.cmdSpeed))
          /\ observation' = get_obs(state_dict', self_vars')]_vars

\* C10 witness: a step pushed a non-zero speed and its observation still shows
\* ego standing
C10_Witness ==
    /\ IsStepCall /\ lastOp.action > 0
    /\ sim.cmdSpeed = Linspace(lastOp.action) /\ sim.cmdSpeed > 0
    /\ RawSpeed(state_dict, "ego") = Float(0)
    /\ observation = get_obs(state_dict, self_vars)

\* the last step got its subscription results and built its info
StepBuiltInfo == IsStepCall /\ sim.err = None /\ last_info.exc = None

\* C11: the info a step builds carries the collision status of that same step:
\* info['ego_collided'] is TRUE exactly when ego is in the colliding-vehicle
\* list the step read for its reward and its termination.
C11_InfoCollidedIsCurrent ==
    StepBuiltInfo =>
        /\ last_info.val.ego_collided = ego_collided
        /\ last_info.val.ego_collided = sim.colliding

\* C12: over any sequence of reset, step, render and close, every call sent to
\* the simulator is made while a simulation is open: close is never issued on
\* a closed connection, and step never runs before the first reset or after
\* close.
C12_CallsOnlyWhileConnected ==
    /\ sim.err # "FatalTraCIError"
    /\ sim.log # <<>> => reset_counter > 0

-----------------------------------------------------------------------------
(* The legacy SumoEnv (sumo_env.py), driven as main_sumo.py drives it: the   *)
(* context subscription asks for speed, angle and position, and the keys of  *)
(* ego's result become self.vars.                                            *)

LegacyVehicles == {"ego", "a", "b", "c"}

LegacySpeeds == {0, 5000}

LegacyPos(v) ==
    CASE v = "ego" -> <<0, 0>> [] v = "a" -> <<3, 4>> [] v = "b" -> <<6, 8>> [] OTHER -> <<9, 12>>

legacy_var_ids == <<VAR_SPEED, VAR_ANGLE, VAR_POSITION>>

LegacyVehicleState(v, speed) ==
    <<<<VAR_SPEED, Float(speed)>>, <<VAR_ANGLE, Float(0)>>,
      <<VAR_POSITION, Tuple2(LegacyPos(v)[1], LegacyPos(v)[2])>>>>

\* the orders in which a subscription result can list ego and its neighbours
LegacyOrders ==
    {o \in UNION {[1..n -> LegacyVehicles] : n \in 1..Cardinality(LegacyVehicles)} :
        /\ \A i, j \in DOMAIN o : i # j => o[i] # o[j]
        /\ \E i \in DOMAIN o : o[i] = "ego"}

\* the subscription results construct_state is applied to
LegacyStatedicts ==
    {[i \in DOMAIN o |-> <<o[i], LegacyVehicleState(o[i], sp[o[i]])>>] :
        o \in LegacyOrders, sp \in [LegacyVehicles -> LegacySpeeds]}

\* la.norm(np.array(a) - np.array(b)): |a - b| for two floats; for two
\* positions the squared Euclidean distance, which orders as the norm does
Norm(a, b) ==
    IF a.tag = "float" THEN Abs(a.val[1] - b.val[1])
    ELSE (a.val[1] - b.val[1]) * (a.val[1] - b.val[1])
         + (a.val[2] - b.val[2]) * (a.val[2] - b.val[2])

\* np.concatenate(values of one vehicle's dict, axis=None)
RECURSIVE Concatenate(_)
Concatenate(d) ==
    IF d = <<>> THEN <<>> ELSE d[1][2].val \o Concatenate(Tail(d))

\* sorted(distances.items(), key=distance): stable, ties keep dict order
RECURSIVE InsertSorted(_, _)
InsertSorted(sorted, item) ==
    IF sorted = <<>> THEN <<item>>
    ELSE IF item[2] < sorted[1][2] THEN <<item>> \o sorted
    ELSE <<sorted[1]>> \o InsertSorted(Tail(sorted), item)

RECURSIVE Sorted(_)
Sorted(items) ==
    IF items = <<>> THEN <<>>
    ELSE InsertSorted(Sorted(SubSeq(items, 1, Len(items) - 1)), items[Len(items)])

RECURSIVE ConcatenateVehicles(_, _)
ConcatenateVehicles(statedict, vehs) ==
    IF vehs = <<>> THEN <<>>
    ELSE Concatenate(Get(statedict, vehs[1])) \o ConcatenateVehicles(statedict, Tail(vehs))

dummy_state == <<0, 0, 10000, 10000>>

RECURSIVE DummyStateCat(_)
DummyStateCat(n_dummy) ==
    IF n_dummy <= 1 THEN dummy_state ELSE DummyStateCat(n_dummy - 1) \o dummy_state

\* SumoEnv.construct_state: the state vector self.s
construct_state(statedict, vs) ==
    LET context_len == Len(statedict) - 1
        ego_pos == Get(Get(statedict, "ego"), vs[1])
        distances == [i \in 1..Len(statedict) |->
                         <<statedict[i][1], Norm(ego_pos, Get(statedict[i][2], vs[1]))>>]
        sorted_distances == Sorted(distances)
        nearest == SubSeq(Keys(sorted_distances), 1, n_veh + 1)
        all == ConcatenateVehicles(statedict, Keys(statedict))
    IN IF context_len > n_veh THEN ConcatenateVehicles(statedict, nearest)
       ELSE IF context_len < n_veh THEN all \o DummyStateCat(n_veh - context_len)
       ELSE all

\* SumoEnv.addContextVars, called with the keys of ego's subscription result
AddContextVars ==
    /\ legacy.vars = <<>>
    /\ legacy' = [legacy EXCEPT !.vars = legacy_var_ids]
    /\ UNCHANGED envVars

\* SumoEnv.construct_state applied to one subscription result
ConstructState ==
    \E sd \in LegacyStatedicts :
        /\ legacy.vars # <<>>
        /\ legacy' = [legacy EXCEPT !.statedict = sd, !.context_len = Len(sd) - 1,
                                    !.s = construct_state(sd, legacy.vars)]
        /\ UNCHANGED envVars

NextLegacy == AddContextVars \/ ConstructState

SpecLegacy == Init /\ [][NextLegacy]_vars

\* the block of the state vector a vehicle of the subscription result yields
VehicleBlock(v) == Concatenate(Get(legacy.statedict, v))

NumBlocks == Len(legacy.s) \div 4

Block(i) == SubSeq(legacy.s, 4 * (i - 1) + 1, 4 * i)

Kept(v) == \E i \in 1..NumBlocks : Block(i) = VehicleBlock(v)

\* the distance of a vehicle to ego, from the two positions
DistanceToEgo(v) ==
    Norm(RawPosition(legacy.statedict, "ego"), RawPosition(legacy.statedict, v))

\* C8: construct_state yields a vector of (n_veh + 1) * 4 values: with more
\* than n_veh neighbours it keeps ego and the n_veh vehicles nearest to ego,
\* with fewer it keeps all and pads one dummy block per missing vehicle, with
\* exactly n_veh it keeps all and pads nothing.
C8_FixedLengthNearest ==
    legacy.statedict # <<>> =>
        LET vehs == KeySet(legacy.statedict)
            all == ConcatenateVehicles(legacy.statedict, Keys(legacy.statedict))
        IN /\ Len(legacy.s) = (n_veh + 1) * 4
           /\ legacy.context_len > n_veh =>
                 /\ Kept("ego")
                 /\ Cardinality({v \in vehs : Kept(v)}) = n_veh + 1
                 /\ \A k, d \in vehs :
                        (Kept(k) /\ ~Kept(d)) => DistanceToEgo(k) <= DistanceToEgo(d)
           /\ legacy.context_len < n_veh =>
                 /\ SubSeq(legacy.s, 1, Len(all)) = all
                 /\ \A i \in (legacy.context_len + 2)..NumBlocks : Block(i) = dummy_state
           /\ legacy.context_len = n_veh => legacy.s = all

====
